---- MODULE Spec2Model ----
(***************************************************************************)
(* Model of the talentlens-bot screening flow (src/bot/handlers.py).        *)
(*                                                                         *)
(* Texts are sequences of characters, one string per character, so that    *)
(* strip(), lower(), replace(), startswith() and split() are computed as   *)
(* the code computes them.  A Cyrillic character is written as a token     *)
(* "ru_<latin name>" (upper case "RU_<latin name>").                        *)
(***************************************************************************)
EXTENDS Integers, Sequences, FiniteSets, TLC

VARIABLES
    state,   \* FSM state of each user (aiogram FSMContext state; "Idle" is None)
    data,    \* FSM data of each user: answers and last_bot_msg_id
    ev,      \* the update whose handler ran last, and the state it was handled in
    out,     \* Telegram API calls that handler made, in order
    ext,     \* calls that handler made to the scoring oracle, the row store
             \* and the admin alert chat
    ADMIN_MSG_IDS,  \* _ADMIN_MSG_IDS: user_id -> [(chat_id, message_id), ...]
    chat,    \* the chat of the admin panel: the id of the last message sent
             \* to it, and the ids of the menu messages it shows
    tasks,   \* handlers suspended at an await, each with its local variables
    loop     \* the user whose handler is inside a synchronous call that
             \* occupies the event loop, and the call; NoCall when there is none

vars == <<state, data, ev, out, ext, ADMIN_MSG_IDS, chat, tasks, loop>>

\* The variables of the admin panel, and those of the event loop
panel_vars == <<ADMIN_MSG_IDS, chat>>
loop_vars == <<tasks, loop>>

(***************************************************************************)
(* Characters and strings                                                  *)
(***************************************************************************)

\* str.strip() removes leading and trailing whitespace
Whitespace == {" ", "\n", "\t"}

UpperChars == <<"A", "D", "N", "S", "RU_P", "RU_N", "T", "R", "U", "E", "Y">>
LowerChars == <<"a", "d", "n", "s", "ru_p", "ru_n", "t", "r", "u", "e", "y">>

LowerChar(c) ==
    IF \E i \in 1..Len(UpperChars) : UpperChars[i] = c
    THEN LowerChars[CHOOSE i \in 1..Len(UpperChars) : UpperChars[i] = c]
    ELSE c

\* str.lower()
Lower(s) == [i \in 1..Len(s) |-> LowerChar(s[i])]

RECURSIVE LStrip(_)
LStrip(s) ==
    IF s # <<>> /\ Head(s) \in Whitespace THEN LStrip(Tail(s)) ELSE s

RECURSIVE RStrip(_)
RStrip(s) ==
    IF s # <<>> /\ s[Len(s)] \in Whitespace
    THEN RStrip(SubSeq(s, 1, Len(s) - 1))
    ELSE s

\* str.strip()
Strip(s) == RStrip(LStrip(s))

\* str.replace(c, "")
RemoveChar(s, c) == SelectSeq(s, LAMBDA x : x # c)

\* str.replace(a, b) for single characters
ReplaceChar(s, a, b) == [i \in 1..Len(s) |-> IF s[i] = a THEN b ELSE s[i]]

\* str.startswith(p)
StartsWith(s, p) == Len(s) >= Len(p) /\ SubSeq(s, 1, Len(p)) = p

\* str.endswith(p)
EndsWith(s, p) ==
    Len(s) >= Len(p) /\ SubSeq(s, Len(s) - Len(p) + 1, Len(s)) = p

\* p in s
Contains(s, p) ==
    \E i \in 1..Len(s) : i + Len(p) - 1 <= Len(s) /\ SubSeq(s, i, i + Len(p) - 1) = p

\* s[:n]
Truncate(s, n) == SubSeq(s, 1, IF Len(s) < n THEN Len(s) ELSE n)

\* str.split(c): the pieces between the occurrences of c (empty pieces kept)
RECURSIVE Split(_, _)
Split(s, c) ==
    IF \A i \in 1..Len(s) : s[i] # c
    THEN <<s>>
    ELSE LET k == CHOOSE i \in 1..Len(s) :
                      s[i] = c /\ \A j \in 1..(i - 1) : s[j] # c
         IN  <<SubSeq(s, 1, k - 1)>> \o Split(SubSeq(s, k + 1, Len(s)), c)

(***************************************************************************)
(* Input classifier (handlers.py 214-269)                                   *)
(***************************************************************************)

D_nehochu == <<"ru_n", "ru_e", "ru_h", "ru_o", "ru_ch", "ru_u">>
D_ne_hochu == <<"ru_n", "ru_e", " ", "ru_h", "ru_o", "ru_ch", "ru_u">>
D_declined == <<"d", "e", "c", "l", "i", "n", "e", "d">>
D_net == <<"ru_n", "ru_e", "ru_t">>
D_skip == <<"s", "k", "i", "p">>

DeclinePhrases == {D_nehochu, D_ne_hochu, D_declined, D_net, D_skip}

N_nda == <<"n", "d", "a">>
N_ndav == <<"ru_n", "ru_d", "ru_a", "ru_v">>
N_podnda == <<"ru_p", "ru_o", "ru_d", "n", "d", "a">>
N_pod_nda == <<"ru_p", "ru_o", "ru_d", " ", "n", "d", "a">>
N_pod_nda_ru == <<"ru_p", "ru_o", "ru_d", " ", "ru_n", "ru_d", "ru_a">>

NdaCompactWords ==
    {N_nda, N_ndav, N_podnda} \cup {N_podnda \o <<p>> : p \in {":", ".", "!", "?"}}

NdaWords == {N_nda, N_pod_nda, N_pod_nda_ru}

P_http == <<"h", "t", "t", "p", ":", "/", "/">>
P_https == <<"h", "t", "t", "p", "s", ":", "/", "/">>

TldSuffixes ==
    { <<".", "c", "o", "m">>, <<".", "n", "e", "t">>, <<".", "o", "r", "g">>,
      <<".", "i", "o">>, <<".", "a", "i">>, <<".", "r", "u">>,
      <<".", "d", "e", "v">>, <<".", "a", "p", "p">>, <<".", "m", "e">>,
      <<".", "c", "o">> }

TldPathMarkers ==
    { <<".", "c", "o", "m", "/">>, <<".", "r", "u", "/">>, <<".", "i", "o", "/">>,
      <<".", "a", "i", "/">>, <<".", "d", "e", "v", "/">> }

\* A message: message.text is None for a non-text message (photo, sticker)
TextMsg(s) == [isText |-> TRUE, text |-> s]
NoTextMsg == [isText |-> FALSE, text |-> <<>>]

\* Mutant of norm: the text is not stripped
norm_unstripped(m) == IF m.isText THEN m.text ELSE <<>>

\* _norm(message.text): (text or "").strip()
norm(m) == IF m.isText THEN Strip(m.text) ELSE <<>>

is_decline(text) == RemoveChar(Lower(text), " ") \in DeclinePhrases

is_nda_word(text) ==
    LET t == Lower(Strip(text))
        t_compact == RemoveChar(t, " ")
    IN  t_compact \in NdaCompactWords \/ t \in NdaWords

looks_like_domain_without_scheme(text) ==
    LET t == Lower(Strip(text))
    IN  IF t = <<>> THEN FALSE
        ELSE IF StartsWith(t, P_http) \/ StartsWith(t, P_https) THEN FALSE
        ELSE IF Contains(t, <<" ">>) THEN FALSE
        ELSE IF Contains(t, <<".">>) /\ \E suf \in TldSuffixes : EndsWith(t, suf)
             THEN TRUE
        ELSE \E mk \in TldPathMarkers : Contains(t, mk)

NoteMinLen == 8
NoteMinWords == 2

is_reasonable_nda_note(text) ==
    LET t == Strip(text)
        pieces == Split(ReplaceChar(t, "\n", " "), " ")
        words == SelectSeq(pieces, LAMBDA w : Strip(w) # <<>>)
    IN  IF t = <<>> THEN FALSE
        ELSE IF Len(t) < NoteMinLen THEN FALSE
        ELSE Len(words) >= NoteMinWords

is_valid_http_url(text) ==
    LET t == Strip(text)
    IN  StartsWith(t, P_http) \/ StartsWith(t, P_https)

(***************************************************************************)
(* Users, FSM storage and Telegram messages                                *)
(***************************************************************************)

Users == {1, 2}

\* settings.admin_user_id
admin_user_id == 1

\* message.from_user.username / .full_name, None as the empty sequence
Username(u) == IF u = 1 THEN <<"a", "d", "m">> ELSE <<>>
FullName(u) == IF u = 1 THEN <<"A", "n", "n">> ELSE <<"S", "a", "m">>

\* ScreeningStates, and None for "no state"
StepOrder == <<"None", "rules", "q1", "q2", "q3", "q4", "q5", "q6", "link">>
States == {StepOrder[i] : i \in 1..Len(StepOrder)}

QKeys == <<"q1", "q2", "q3", "q4", "q5", "q6">>

\* message_id of a prompt the bot sent, named after the prompt; "None" is None
QuestionId == <<"Q1", "Q2", "Q3", "Q4", "Q5", "Q6">>
NoMsgId == "None"

\* FSM data after state.clear(): {}
\* data.get("answers", {}) is {} and data.get("last_bot_msg_id") is None
NoAnswers == <<>>
ClearedData == [answers |-> NoAnswers, last_bot_msg_id |-> NoMsgId]

\* answers[key] = text on a dict
DictSet(d, key, text) == [k \in DOMAIN d \cup {key} |-> IF k = key THEN text ELSE d[k]]

\* One Telegram API call: op is send / edit / edit_markup / delete / typing /
\* cb_answer; ok is FALSE when the call raised (and the code swallowed it)
Api(op, arg, kb, ok) == [op |-> op, arg |-> arg, kb |-> kb, ok |-> ok]
Send(arg) == Api("send", arg, "none", TRUE)

NoExt == [oracle |-> <<>>, store |-> <<>>, alert |-> <<>>, fetch |-> <<>>]

\* No handler is inside a synchronous call
NoCall == [user |-> 0, call |-> "none"]

\* Mutant of Handled: one FSM state for all users
Handled_one_state(u, kind, m, st, dt, o, x) ==
    /\ state' = [v \in DOMAIN state |-> st]
    /\ data' = [data EXCEPT ![u] = dt]
    /\ ev' = [user |-> u, kind |-> kind, msg |-> m, at |-> state[u]]
    /\ out' = o
    /\ ext' = x

\* The handler of update (u, kind, m) ran and left st, dt, o, x
Handled(u, kind, m, st, dt, o, x) ==
    /\ state' = [state EXCEPT ![u] = st]
    /\ data' = [data EXCEPT ![u] = dt]
    /\ ev' = [user |-> u, kind |-> kind, msg |-> m, at |-> state[u]]
    /\ out' = o
    /\ ext' = x

(***************************************************************************)
(* Commands and the confirmation button (handlers.py 337-380, 471-474)      *)
(***************************************************************************)

start_handler(u) ==
    Handled(u, "start", NoTextMsg, "rules", ClearedData,
            <<Api("send", "Rules", "rules", TRUE)>>, NoExt)

restart_handler(u) ==
    Handled(u, "restart", NoTextMsg, "rules", ClearedData,
            <<Api("send", "Rules", "rules", TRUE)>>, NoExt)

\* Mutant of cancel_handler: the state is reset and the data kept
cancel_handler_keeps_data(u) ==
    Handled(u, "cancel", NoTextMsg, "None", data[u], <<Send("Cancelled")>>, NoExt)

cancel_handler(u) ==
    Handled(u, "cancel", NoTextMsg, "None", ClearedData, <<Send("Cancelled")>>, NoExt)

\* Mutant of send_replace_calls: a failed delete ends the replacement
send_replace_calls_needs_delete(dt, prompt, kb, delOk) ==
    IF dt.last_bot_msg_id # NoMsgId
    THEN <<Api("delete", dt.last_bot_msg_id, "none", delOk)>>
         \o (IF delOk THEN <<Api("send", prompt, kb, TRUE)>> ELSE <<>>)
    ELSE <<Api("send", prompt, kb, TRUE)>>

\* _send_replace: delete the prompt last_bot_msg_id names (when there is one),
\* send the new prompt, store its id
send_replace_calls(dt, prompt, kb, delOk) ==
    (IF dt.last_bot_msg_id # NoMsgId
     THEN <<Api("delete", dt.last_bot_msg_id, "none", delOk)>>
     ELSE <<>>)
    \o <<Api("send", prompt, kb, TRUE)>>

send_replace_data(dt, prompt) == [dt EXCEPT !.last_bot_msg_id = prompt]

\* _transition_accepted: edit the prompt last_bot_msg_id names into the
\* "answer accepted" notice
transition_accepted_calls(dt, editOk) ==
    IF dt.last_bot_msg_id = NoMsgId
    THEN <<>>
    ELSE <<Api("edit", dt.last_bot_msg_id, "none", editOk)>>

\* Mutant of go_start_cb: the state is not looked at
go_start_cb_unguarded(u, editOk, delOk) ==
    Handled(u, "go", NoTextMsg, "q1",
            [answers |-> NoAnswers, last_bot_msg_id |-> QuestionId[1]],
            <<Api("edit_markup", "Rules", "none", editOk),
              Api("delete", "Rules", "none", delOk),
              Api("send", QuestionId[1], "none", TRUE),
              Api("cb_answer", "", "none", TRUE)>>,
            NoExt)

go_start_cb(u, editOk, delOk) ==
    IF state[u] # "rules"
    THEN Handled(u, "go", NoTextMsg, state[u], data[u],
                 <<Api("cb_answer", "Ok", "none", TRUE)>>, NoExt)
    ELSE LET d0 == [answers |-> NoAnswers, last_bot_msg_id |-> NoMsgId]
         IN  Handled(u, "go", NoTextMsg, "q1", send_replace_data(d0, QuestionId[1]),
                     <<Api("edit_markup", "Rules", "none", editOk),
                       Api("delete", "Rules", "none", delOk)>>
                     \o send_replace_calls(d0, QuestionId[1], "none", delOk)
                     \o <<Api("cb_answer", "", "none", TRUE)>>,
                     NoExt)

(***************************************************************************)
(* Question steps (handlers.py 477-570)                                     *)
(***************************************************************************)

RepromptId == <<"Reprompt1", "Reprompt2", "Reprompt3", "Reprompt4", "Reprompt5", "Reprompt6">>

\* Mutant of record_answer: the answer goes under the key of the first question
record_answer_first_key(dt, n, text) ==
    [dt EXCEPT !.answers = DictSet(dt.answers, QKeys[1], text)]

\* answers = data.get("answers", {}); answers["qN"] = text; update_data(answers=answers)
record_answer(dt, n, text) == [dt EXCEPT !.answers = DictSet(dt.answers, QKeys[n], text)]

\* Mutant of state_after_q: the state after next is set
state_after_q_skip(n) == IF n + 1 < Len(QKeys) THEN QKeys[n + 2] ELSE "link"

\* the state qN_handler sets: ScreeningStates.q(N+1), ScreeningStates.link after q6
state_after_q(n) == IF n < Len(QKeys) THEN QKeys[n + 1] ELSE "link"

\* q1_handler .. q5_handler
qn_handler(u, n, m, editOk, delOk) ==
    /\ state[u] = QKeys[n]
    /\ LET text == norm(m)
       IN  IF text = <<>>
           THEN Handled(u, "msg", m, state[u], data[u], <<Send(RepromptId[n])>>, NoExt)
           ELSE LET d1 == record_answer(data[u], n, text)
                IN  Handled(u, "msg", m, state_after_q(n),
                            send_replace_data(d1, QuestionId[n + 1]),
                            transition_accepted_calls(d1, editOk)
                            \o send_replace_calls(d1, QuestionId[n + 1], "none", delOk),
                            NoExt)

q6_handler(u, m, delOk) ==
    /\ state[u] = QKeys[6]
    /\ LET text == norm(m)
       IN  IF text = <<>>
           THEN Handled(u, "msg", m, state[u], data[u], <<Send(RepromptId[6])>>, NoExt)
           ELSE LET d1 == record_answer(data[u], 6, text)
                IN  Handled(u, "msg", m, state_after_q(6),
                            send_replace_data(d1, "Link"),
                            send_replace_calls(d1, "Link", "none", delOk),
                            NoExt)

\* A message no handler matches (no state, or ScreeningStates.rules): dropped
unhandled_message(u, m) ==
    /\ state[u] \in {"None", "rules"}
    /\ Handled(u, "msg", m, state[u], data[u], <<>>, NoExt)

(***************************************************************************)
(* Scoring (services/llm_scoring.py, models.py)                             *)
(***************************************************************************)

CriteriaCount == 3
ScoreMin == 0
ScoreMax == 10

\* str(e)[:500]: what link_handler keeps of an exception's text
ErrTextMax == 500

\* One oracle response: the call raised an exception whose text is msg, or
\* returned text that parses as JSON or does not; a parsed document carries
\* the criteria scores, the overall score and the hot flag
Response(raises, msg, parses, criteria, overall, hot) ==
    [raises |-> raises, msg |-> msg, parses |-> parses, criteria |-> criteria,
     overall |-> overall, hot |-> hot]

E_api == <<"a", "p", "i">>
E_json == <<"j", "s", "o", "n">>
E_validation == <<"v", "a", "l", "i", "d">>

\* Mutant of model_validate: the bounds of the scores are not checked
model_validate_unranged(r) == r.parses /\ Len(r.criteria) = CriteriaCount

\* json.loads(text) followed by ScoreResult.model_validate(data)
model_validate(r) ==
    /\ r.parses
    /\ Len(r.criteria) = CriteriaCount
    /\ \A i \in 1..Len(r.criteria) : r.criteria[i] \in ScoreMin..ScoreMax
    /\ r.overall \in ScoreMin..ScoreMax

ScoreResult(r) == [criteria |-> r.criteria, overall_score_0_10 |-> r.overall, hot |-> r.hot]

\* One _call: the payload sent and the response received
Call(payload, r) == [payload |-> payload, response |-> r]

\* Mutant of score_candidate: the retry is made after a raised first call too
score_candidate_retry_always(payload, r1, r2) ==
    IF ~r1.raises /\ model_validate(r1)
    THEN [ok |-> TRUE, calls |-> <<Call(payload, r1)>>, scores |-> <<ScoreResult(r1)>>,
          exc |-> <<>>]
    ELSE IF r2.raises
    THEN [ok |-> FALSE, calls |-> <<Call(payload, r1), Call(payload, r2)>>,
          scores |-> <<>>, exc |-> r2.msg]
    ELSE IF model_validate(r2)
    THEN [ok |-> TRUE, calls |-> <<Call(payload, r1), Call(payload, r2)>>,
          scores |-> <<ScoreResult(r2)>>, exc |-> <<>>]
    ELSE [ok |-> FALSE, calls |-> <<Call(payload, r1), Call(payload, r2)>>,
          scores |-> <<>>, exc |-> IF r2.parses THEN E_validation ELSE E_json]

\* score_candidate(payload) with the oracle answering r1, then r2 on the retry:
\* the calls made, and the ScoreResult returned or the exception raised
score_candidate(payload, r1, r2) ==
    IF r1.raises
    THEN [ok |-> FALSE, calls |-> <<Call(payload, r1)>>, scores |-> <<>>, exc |-> r1.msg]
    ELSE IF model_validate(r1)
    THEN [ok |-> TRUE, calls |-> <<Call(payload, r1)>>, scores |-> <<ScoreResult(r1)>>,
          exc |-> <<>>]
    ELSE IF r2.raises
    THEN [ok |-> FALSE, calls |-> <<Call(payload, r1), Call(payload, r2)>>,
          scores |-> <<>>, exc |-> r2.msg]
    ELSE IF model_validate(r2)
    THEN [ok |-> TRUE, calls |-> <<Call(payload, r1), Call(payload, r2)>>,
          scores |-> <<ScoreResult(r2)>>, exc |-> <<>>]
    ELSE [ok |-> FALSE, calls |-> <<Call(payload, r1), Call(payload, r2)>>,
          scores |-> <<>>, exc |-> IF r2.parses THEN E_validation ELSE E_json]

(***************************************************************************)
(* Row store (services/sheets.py)                                           *)
(***************************************************************************)

\* SheetRow.model_validate(row)
SheetRow_validate(row) ==
    /\ row.tg_user_id >= 0
    /\ row.overall_score \in ScoreMin..ScoreMax

\* append_row(row) with the sheet API answering res: the exception raised, if any
append_row(row, res) ==
    IF ~SheetRow_validate(row)
    THEN [raises |-> TRUE, msg |-> E_validation]
    ELSE res

(***************************************************************************)
(* Outcomes of the external calls                                          *)
(***************************************************************************)

R_ok == Response(FALSE, <<>>, TRUE, <<5, 6, 7>>, 6, FALSE)
R_hot == Response(FALSE, <<>>, TRUE, <<9, 8, 9>>, 9, TRUE)
R_two == Response(FALSE, <<>>, TRUE, <<5, 6>>, 6, FALSE)
R_four == Response(FALSE, <<>>, TRUE, <<5, 6, 7, 8>>, 6, FALSE)
R_eleven == Response(FALSE, <<>>, TRUE, <<5, 11, 7>>, 8, FALSE)
R_below == Response(FALSE, <<>>, TRUE, <<5, 6, 0 - 1>>, 3, FALSE)
R_garbage == Response(FALSE, <<>>, FALSE, <<>>, 0, FALSE)
R_raise == Response(TRUE, E_api, FALSE, <<>>, 0, FALSE)
\* an exception whose text is one character longer than what the row keeps
R_raise_long == Response(TRUE, [i \in 1..(ErrTextMax + 1) |-> "x"], FALSE, <<>>, 0, FALSE)

OracleResponses ==
    {R_ok, R_hot, R_two, R_four, R_eleven, R_below, R_garbage, R_raise, R_raise_long}

\* Outcomes of the sheet API call: done, or an exception and its message
StoreOutcomes ==
    { [raises |-> FALSE, msg |-> <<>>],
      [raises |-> TRUE, msg |-> <<>>],
      [raises |-> TRUE, msg |-> <<"q", "u", "o", "t", "a">>] }

(***************************************************************************)
(* Link step (handlers.py 573-777)                                          *)
(***************************************************************************)

\* An optional string: None is <<>>, the string s is <<s>>
None == <<>>
Some(s) == <<s>>
\* Python truth of an optional string: neither None nor ""
Truthy(opt) == opt # None /\ opt[1] # <<>>

\* json.dumps of a dict of strings: its key/value pairs in insertion order
json_dumps(d) ==
    LET keys == SelectSeq(QKeys, LAMBDA k : k \in DOMAIN d)
    IN  [i \in 1..Len(keys) |-> <<keys[i], d[keys[i]]>>]

\* Mutant of classify_link: every text that is no decline, URL or marker is a note
classify_link_lenient(t) ==
    IF is_decline(t)
    THEN [accepted |-> TRUE, project_link |-> D_declined, project_note |-> None]
    ELSE IF is_valid_http_url(t)
    THEN [accepted |-> TRUE, project_link |-> t, project_note |-> None]
    ELSE IF Lower(t) = N_nda
    THEN [accepted |-> TRUE, project_link |-> N_nda, project_note |-> None]
    ELSE [accepted |-> TRUE, project_link |-> N_nda, project_note |-> Some(t)]

\* Mutant of classify_link: the note is tested first
classify_link_note_first(t) ==
    IF is_reasonable_nda_note(t)
    THEN [accepted |-> TRUE, project_link |-> N_nda, project_note |-> Some(t)]
    ELSE IF is_decline(t)
    THEN [accepted |-> TRUE, project_link |-> D_declined, project_note |-> None]
    ELSE IF is_valid_http_url(t)
    THEN [accepted |-> TRUE, project_link |-> t, project_note |-> None]
    ELSE IF Lower(t) = N_nda
    THEN [accepted |-> TRUE, project_link |-> N_nda, project_note |-> None]
    ELSE [accepted |-> FALSE, project_link |-> <<>>, project_note |-> None]

\* The if / elif chain of link_handler over t = text.strip()
classify_link(t) ==
    IF is_decline(t)
    THEN [accepted |-> TRUE, project_link |-> D_declined, project_note |-> None]
    ELSE IF is_valid_http_url(t)
    THEN [accepted |-> TRUE, project_link |-> t, project_note |-> None]
    ELSE IF Lower(t) = N_nda
    THEN [accepted |-> TRUE, project_link |-> N_nda, project_note |-> None]
    ELSE IF is_reasonable_nda_note(t)
    THEN [accepted |-> TRUE, project_link |-> N_nda, project_note |-> Some(t)]
    ELSE [accepted |-> FALSE, project_link |-> <<>>, project_note |-> None]

\* Mutant of build_payload: the sixth answer is left out
build_payload_five(u, answers, project_link) ==
    [tg_user_id |-> u, username |-> Username(u), full_name |-> FullName(u),
     answers |-> [k \in DOMAIN answers \ {"q6"} |-> answers[k]],
     project_link |-> project_link]

build_payload(u, answers, project_link) ==
    [tg_user_id |-> u, username |-> Username(u), full_name |-> FullName(u),
     answers |-> answers, project_link |-> project_link]

\* Mutant of build_row: the whole text of the exception is kept
build_row_untruncated(u, answers, cls, sc) ==
    [tg_user_id |-> u, username |-> Username(u), full_name |-> FullName(u),
     answers_json |-> json_dumps(answers),
     project_link |-> cls.project_link,
     project_note |-> cls.project_note,
     scores_json |-> sc.scores,
     overall_score |-> IF sc.ok THEN sc.scores[1].overall_score_0_10 ELSE 0,
     top_candidate |-> IF sc.ok THEN sc.scores[1].hot ELSE FALSE,
     scoring_failed |-> ~sc.ok,
     error |-> IF sc.ok THEN None ELSE Some(sc.exc)]

\* Mutant of build_row: the row is marked scoring_failed whatever the outcome
build_row_failed(u, answers, cls, sc) ==
    [tg_user_id |-> u, username |-> Username(u), full_name |-> FullName(u),
     answers_json |-> json_dumps(answers),
     project_link |-> cls.project_link,
     project_note |-> cls.project_note,
     scores_json |-> sc.scores,
     overall_score |-> IF sc.ok THEN sc.scores[1].overall_score_0_10 ELSE 0,
     top_candidate |-> IF sc.ok THEN sc.scores[1].hot ELSE FALSE,
     scoring_failed |-> TRUE,
     error |-> IF sc.ok THEN None ELSE Some(Truncate(sc.exc, ErrTextMax))]

\* The row link_handler builds from the scoring outcome sc (timestamp, model
\* name and latency left out: they come from the clock and the settings)
build_row(u, answers, cls, sc) ==
    [tg_user_id |-> u, username |-> Username(u), full_name |-> FullName(u),
     answers_json |-> json_dumps(answers),
     project_link |-> cls.project_link,
     project_note |-> cls.project_note,
     scores_json |-> sc.scores,
     overall_score |-> IF sc.ok THEN sc.scores[1].overall_score_0_10 ELSE 0,
     top_candidate |-> IF sc.ok THEN sc.scores[1].hot ELSE FALSE,
     scoring_failed |-> ~sc.ok,
     error |-> IF sc.ok THEN None ELSE Some(Truncate(sc.exc, ErrTextMax))]

\* sheet_error: None, or str(e)[:500] of the exception append_row raised
sheet_error_of(res) == IF res.raises THEN Some(Truncate(res.msg, ErrTextMax)) ELSE None

\* if scoring_failed or sheet_error or top_candidate
alert_needed(scoring_failed, sheet_error, top_candidate) ==
    scoring_failed \/ Truthy(sheet_error) \/ top_candidate

Placeholder == <<"K", "a", "n", "d", "i", "d", "a", "t">>

\* display name of the admin alert
alert_display(u) ==
    LET full_name == Strip(FullName(u))
        username == Strip(Username(u))
    IN  (IF full_name # <<>> THEN full_name ELSE Placeholder)
        \o (IF username # <<>> THEN <<" ", "(", "@">> \o username \o <<")">> ELSE <<>>)

\* Mutant of is_admin: everyone is the administrator
is_admin_anyone(u) == u \in Users

\* _is_admin(message)
is_admin(u) == u = admin_user_id

\* link_handler on an accepted input when it goes on to the completion only
\* if goes_on(append raised, alert sent and failed) holds
link_accepted_if(u, dt, cls, r1, r2, storeRes, scoringOk, alertOk, delOk, goes_on(_, _)) ==
    LET answers == dt.answers
        sc == score_candidate(build_payload(u, answers, cls.project_link), r1, r2)
        row == build_row(u, answers, cls, sc)
        res == append_row(row, storeRes)
        sheet_error == sheet_error_of(res)
        alerts == IF alert_needed(row.scoring_failed, sheet_error, row.top_candidate)
                  THEN <<[display |-> alert_display(u), is_top |-> row.top_candidate,
                          scoring_failed |-> row.scoring_failed,
                          sheet_error |-> sheet_error, ok |-> alertOk]>>
                  ELSE <<>>
        completes == goes_on(res.raises, alerts # <<>> /\ ~alertOk)
    IN  [st |-> IF completes THEN "None" ELSE "link",
         dt |-> IF completes THEN send_replace_data(dt, "Done") ELSE dt,
         out |-> <<Api("typing", "", "none", TRUE),
                   Api("send", "Scoring", "none", scoringOk)>>
                 \o (IF sc.ok /\ scoringOk
                     THEN <<Api("delete", "Scoring", "none", delOk)>>
                     ELSE <<>>)
                 \o (IF completes
                     THEN send_replace_calls(dt, "Done",
                                             IF is_admin(u) THEN "admin_entry" ELSE "none",
                                             delOk)
                     ELSE <<>>),
         ext |-> [oracle |-> sc.calls,
                  store |-> <<[row |-> row, ok |-> ~res.raises]>>,
                  alert |-> alerts,
                  fetch |-> <<>>]]

\* Mutant of link_accepted: an exception of append_row ends the handler
link_accepted_store_aborts(u, dt, cls, r1, r2, storeRes, scoringOk, alertOk, delOk) ==
    link_accepted_if(u, dt, cls, r1, r2, storeRes, scoringOk, alertOk, delOk,
                     LAMBDA raised, undelivered : ~raised)

\* Mutant of link_accepted: an exception of the alert's send ends the handler
link_accepted_alert_aborts(u, dt, cls, r1, r2, storeRes, scoringOk, alertOk, delOk) ==
    link_accepted_if(u, dt, cls, r1, r2, storeRes, scoringOk, alertOk, delOk,
                     LAMBDA raised, undelivered : ~undelivered)

\* What link_handler does on an accepted input: the calls it makes and the
\* FSM state and data it leaves
link_accepted(u, dt, cls, r1, r2, storeRes, scoringOk, alertOk, delOk) ==
    LET answers == dt.answers
        sc == score_candidate(build_payload(u, answers, cls.project_link), r1, r2)
        row == build_row(u, answers, cls, sc)
        res == append_row(row, storeRes)
        sheet_error == sheet_error_of(res)
        alerts == IF alert_needed(row.scoring_failed, sheet_error, row.top_candidate)
                  THEN <<[display |-> alert_display(u), is_top |-> row.top_candidate,
                          scoring_failed |-> row.scoring_failed,
                          sheet_error |-> sheet_error, ok |-> alertOk]>>
                  ELSE <<>>
    IN  [st |-> "None",
         dt |-> send_replace_data(dt, "Done"),
         out |-> <<Api("typing", "", "none", TRUE),
                   Api("send", "Scoring", "none", scoringOk)>>
                 \o (IF sc.ok /\ scoringOk
                     THEN <<Api("delete", "Scoring", "none", delOk)>>
                     ELSE <<>>)
                 \o send_replace_calls(dt, "Done",
                                       IF is_admin(u) THEN "admin_entry" ELSE "none", delOk),
         ext |-> [oracle |-> sc.calls,
                  store |-> <<[row |-> row, ok |-> ~res.raises]>>,
                  alert |-> alerts,
                  fetch |-> <<>>]]

\* The retry response is read only when the first response was returned and
\* did not validate
RetryResponses(r1) ==
    IF r1.raises \/ model_validate(r1)
    THEN {R_raise}
    ELSE {R_ok, R_hot, R_eleven, R_garbage, R_raise}

link_handler(u, m) ==
    /\ state[u] = "link"
    /\ LET text == norm(m)
           cls == classify_link(Strip(text))
       IN  IF text = <<>>
           THEN Handled(u, "msg", m, state[u], data[u], <<Send("LinkReprompt")>>, NoExt)
           ELSE IF ~cls.accepted
           THEN Handled(u, "msg", m, state[u], data[u], <<Send("BadFormat")>>, NoExt)
           ELSE \E r1 \in OracleResponses, storeRes \in StoreOutcomes,
                   scoringOk, alertOk, delOk \in BOOLEAN :
                  \E r2 \in RetryResponses(r1) :
                     LET r == link_accepted(u, data[u], cls, r1, r2, storeRes,
                                            scoringOk, alertOk, delOk)
                     IN  Handled(u, "msg", m, r.st, r.dt, r.out, r.ext)

(***************************************************************************)
(* Admin panel (handlers.py 21-43, 383-468)                                 *)
(***************************************************************************)

ADMIN_MSG_LIMIT == 6

\* {} as a dict, and dict.get(key, [])
EmptyDict == <<>>
DictGet(d, key) == IF key \in DOMAIN d THEN d[key] ELSE <<>>

\* The chat the panel is shown in, before any panel message was sent
ChatId == "chat"
NoPanel == [last_id |-> 0, menus |-> {}]

\* Mutant of track_admin_msg: a full buffer keeps its first entries
track_admin_msg_keeps_oldest(ids, user_id, chat_id, message_id) ==
    LET buf == Append(DictGet(ids, user_id), <<chat_id, message_id>>)
    IN  DictSet(ids, user_id,
                IF Len(buf) > ADMIN_MSG_LIMIT THEN SubSeq(buf, 1, ADMIN_MSG_LIMIT) ELSE buf)

\* _track_admin_msg: append, keep the last _ADMIN_MSG_LIMIT entries
track_admin_msg(ids, user_id, chat_id, message_id) ==
    LET buf == Append(DictGet(ids, user_id), <<chat_id, message_id>>)
    IN  DictSet(ids, user_id,
                IF Len(buf) > ADMIN_MSG_LIMIT
                THEN SubSeq(buf, Len(buf) - ADMIN_MSG_LIMIT + 1, Len(buf))
                ELSE buf)

\* reversed(items)
Reversed(items) == [i \in 1..Len(items) |-> items[Len(items) + 1 - i]]

\* _thanos_delete: the delete calls, newest first; a message is deleted once,
\* and a delete after that raises
thanos_delete_calls(items, delOk) ==
    LET r == Reversed(items)
    IN  [i \in 1..Len(r) |->
            Api("delete", r[i][2], "none",
                delOk /\ ~\E j \in 1..(i - 1) : r[j] = r[i])]

\* A callback of someone who is not the administrator
admin_only(u, kind) ==
    /\ Handled(u, kind, NoTextMsg, state[u], data[u],
               <<Api("cb_answer", "AdminOnly", "none", TRUE)>>, NoExt)
    /\ UNCHANGED panel_vars

(***************************************************************************)
(* Statistics report (handlers.py 131-189)                                 *)
(***************************************************************************)

\* One data row of the sheet as fetch_rows returns it: header -> cell text
SheetCells(ts, username, full_name, overall, top, failed) ==
    [timestamp_utc_iso |-> ts, username |-> username, full_name |-> full_name,
     overall_score |-> overall, top_candidate |-> top, scoring_failed |-> failed]

TrueWords ==
    { <<"t", "r", "u", "e">>, <<"1">>, <<"y", "e", "s">>, <<"y">>, <<"ru_d", "ru_a">> }

\* _to_bool
to_bool(x) == Lower(Strip(x)) \in TrueWords

Digits == <<"0", "1", "2", "3", "4", "5", "6", "7", "8", "9">>
IsDigit(c) == \E i \in 1..Len(Digits) : Digits[i] = c
DigitVal(c) == (CHOOSE i \in 1..Len(Digits) : Digits[i] = c) - 1

\* The value of a sequence of digits
RECURSIVE DigitsVal(_)
DigitsVal(s) ==
    IF s = <<>> THEN 0
    ELSE 10 * DigitsVal(SubSeq(s, 1, Len(s) - 1)) + DigitVal(s[Len(s)])

\* _to_int: int(str(x).strip()), and default when int() raises
to_int(x, default) ==
    LET t == Strip(x)
        signed == t # <<>> /\ Head(t) \in {"-", "+"}
        body == IF signed THEN Tail(t) ELSE t
    IN  IF body # <<>> /\ \A i \in 1..Len(body) : IsDigit(body[i])
        THEN IF signed /\ Head(t) = "-" THEN 0 - DigitsVal(body) ELSE DigitsVal(body)
        ELSE default

Unknown == <<"u", "n", "k", "n", "o", "w", "n">>

\* The dict appended to norm for row r
norm_row(r) ==
    LET username == Strip(r.username)
        full_name == Strip(r.full_name)
    IN  [top_candidate |-> to_bool(r.top_candidate),
         overall |-> to_int(r.overall_score, 0),
         scoring_failed |-> to_bool(r.scoring_failed),
         display |-> IF username # <<>> THEN <<"@">> \o username
                     ELSE IF full_name # <<>> THEN full_name ELSE Unknown,
         ts |-> Strip(r.timestamp_utc_iso)]

\* The characters of a timestamp in the order of their code points
TsChars == <<"-">> \o Digits \o <<":", "T", "Z">>
CharOrd(c) == CHOOSE i \in 1..Len(TsChars) : TsChars[i] = c

\* a < b on str
RECURSIVE StrLess(_, _)
StrLess(a, b) ==
    IF b = <<>> THEN FALSE
    ELSE IF a = <<>> THEN TRUE
    ELSE IF Head(a) = Head(b) THEN StrLess(Tail(a), Tail(b))
    ELSE CharOrd(Head(a)) < CharOrd(Head(b))

\* (a["overall"], a["ts"]) < (b["overall"], b["ts"])
KeyLess(a, b) ==
    a.overall < b.overall \/ (a.overall = b.overall /\ StrLess(a.ts, b.ts))

\* Mutant of SortedDesc: ascending
RECURSIVE SortedDesc_ascending(_, _)
SortedDesc_ascending(items, n) ==
    IF n = 0 THEN <<>>
    ELSE LET s == SortedDesc_ascending(items, n - 1)
             k == Cardinality({j \in 1..Len(s) : ~KeyLess(items[n], items[s[j]])})
         IN  SubSeq(s, 1, k) \o <<n>> \o SubSeq(s, k + 1, Len(s))

\* sorted(items, key=..., reverse=True) over the first n items, as the
\* positions of the items: descending, equal keys in their original order
RECURSIVE SortedDesc(_, _)
SortedDesc(items, n) ==
    IF n = 0 THEN <<>>
    ELSE LET s == SortedDesc(items, n - 1)
             k == Cardinality({j \in 1..Len(s) : ~KeyLess(items[s[j]], items[n])})
         IN  SubSeq(s, 1, k) \o <<n>> \o SubSeq(s, k + 1, Len(s))

RECURSIVE SumOverall(_)
SumOverall(items) ==
    IF items = <<>> THEN 0 ELSE Head(items).overall + SumOverall(Tail(items))

\* round(a / b, 1) in tenths, for b > 0: the nearest tenth, a tie to the even
\* one
RoundTenths(a, b) ==
    LET q == (10 * a) \div b
        r == (10 * a) % b
    IN  IF 2 * r < b THEN q
        ELSE IF 2 * r > b THEN q + 1
        ELSE IF q % 2 = 0 THEN q ELSE q + 1

TopSize == 3

NoReport ==
    [kind |-> "none", total |-> 0, avg |-> 0, top_count |-> 0, failed_count |-> 0,
     norm |-> <<>>, top3 |-> <<>>]

\* Mutant of filter_rows: every row is kept
filter_rows_all(rows, only_top) ==
    [i \in 1..Len(rows) |-> norm_row(rows[i])]

\* The list norm: the rows kept by the filter, in the order of the sheet
filter_rows(rows, only_top) ==
    SelectSeq([i \in 1..Len(rows) |-> norm_row(rows[i])],
              LAMBDA x : ~only_top \/ x.top_candidate)

\* _render_admin_stats on the rows fetch_rows returned: which text, and the
\* numbers in it; avg in tenths; top3 as positions in norm
render_admin_stats(rows, only_top) ==
    LET kept == filter_rows(rows, only_top)
        order == SortedDesc(kept, Len(kept))
    IN  IF rows = <<>> THEN [NoReport EXCEPT !.kind = "no_data"]
        ELSE IF kept = <<>> THEN [NoReport EXCEPT !.kind = "no_top"]
        ELSE [kind |-> IF only_top THEN "top_report" ELSE "report",
              total |-> Len(kept),
              avg |-> RoundTenths(SumOverall(kept), Len(kept)),
              top_count |-> Len(SelectSeq(kept, LAMBDA x : x.top_candidate)),
              failed_count |-> Len(SelectSeq(kept, LAMBDA x : x.scoring_failed)),
              norm |-> kept,
              top3 |-> SubSeq(order, 1, IF Len(order) < TopSize THEN Len(order) ELSE TopSize)]

\* The text _render_admin_stats returned
ReportText(report) ==
    CASE report.kind = "no_data" -> "NoData"
      [] report.kind = "no_top" -> "NoTop"
      [] report.kind = "top_report" -> "TopStats"
      [] OTHER -> "Stats"

\* The sheet was read for a report: ok is FALSE when fetch_rows raised
Fetch(only_top, fetchOk, rows) ==
    [only_top |-> only_top, ok |-> fetchOk, rows |-> IF fetchOk THEN rows ELSE <<>>,
     report |-> IF fetchOk THEN render_admin_stats(rows, only_top) ELSE NoReport]

A_top == <<"t", "o", "p">>
A_top_ru == <<"ru_t", "ru_o", "ru_p">>

\* admin_handler: /admin with the rest of the command text arg; fetch_rows
\* returns rows (fetchOk) or raises
admin_handler(u, arg, fetchOk, rows) ==
    /\ LET f == Fetch(Lower(Strip(arg)) \in {A_top, A_top_ru}, fetchOk, rows)
       IN  Handled(u, "admin", TextMsg(arg), state[u], data[u],
                   IF ~is_admin(u) THEN <<Send("AdminOnly")>>
                   ELSE IF ~fetchOk THEN <<Send("SheetError")>>
                   ELSE <<Send(ReportText(f.report))>>,
                   IF is_admin(u) THEN [NoExt EXCEPT !.fetch = <<f>>] ELSE NoExt)
    /\ chat' = [chat EXCEPT !.last_id = @ + 1]
    /\ UNCHANGED ADMIN_MSG_IDS

chatid_handler(u) ==
    /\ Handled(u, "chatid", NoTextMsg, state[u], data[u],
               <<Send(IF is_admin(u) THEN "ChatId" ELSE "AdminOnly")>>, NoExt)
    /\ chat' = [chat EXCEPT !.last_id = @ + 1]
    /\ UNCHANGED ADMIN_MSG_IDS

admin_menu_cb(u) ==
    IF ~is_admin(u)
    THEN admin_only(u, "admin_menu")
    ELSE LET id == chat.last_id + 1
         IN  /\ Handled(u, "admin_menu", NoTextMsg, state[u], data[u],
                        <<Api("send", "AdminMenu", "admin_menu", TRUE),
                          Api("cb_answer", "", "none", TRUE)>>, NoExt)
             /\ ADMIN_MSG_IDS' = track_admin_msg(ADMIN_MSG_IDS, admin_user_id, ChatId, id)
             /\ chat' = [last_id |-> id, menus |-> chat.menus \cup {id}]

\* admin_all_cb (only_top FALSE) and admin_top_cb (only_top TRUE)
admin_stats_cb(u, only_top, fetchOk, rows) ==
    LET kind == IF only_top THEN "admin_top" ELSE "admin_all"
    IN  IF ~is_admin(u)
        THEN admin_only(u, kind)
        ELSE LET id == chat.last_id + 1
                 f == Fetch(only_top, fetchOk, rows)
                 text == IF ~fetchOk THEN "SheetError" ELSE ReportText(f.report)
             IN  /\ Handled(u, kind, NoTextMsg, state[u], data[u],
                            <<Send(text), Api("cb_answer", "", "none", TRUE)>>,
                            [NoExt EXCEPT !.fetch = <<f>>])
                 /\ ADMIN_MSG_IDS' = track_admin_msg(ADMIN_MSG_IDS, admin_user_id, ChatId, id)
                 /\ chat' = [chat EXCEPT !.last_id = id]

\* admin_close_cb pressed on menu message mid
admin_close_cb(u, mid, delOk) ==
    IF ~is_admin(u)
    THEN admin_only(u, "admin_close")
    ELSE LET tracked == track_admin_msg(ADMIN_MSG_IDS, admin_user_id, ChatId, mid)
             calls == thanos_delete_calls(tracked[admin_user_id], delOk)
             deleted == {calls[i].arg : i \in {j \in 1..Len(calls) : calls[j].ok}}
         IN  /\ Handled(u, "admin_close", NoTextMsg, state[u], data[u],
                        calls \o <<Api("cb_answer", "Closed", "none", TRUE)>>, NoExt)
             /\ ADMIN_MSG_IDS' = DictSet(tracked, admin_user_id, <<>>)
             /\ chat' = [chat EXCEPT !.menus = @ \ deleted]

(***************************************************************************)
(* Inputs                                                                  *)
(***************************************************************************)

\* The first VariedSteps questions are answered with either of two texts, the
\* later ones with one
VariedSteps == 1

\* Messages sent at question step n: a photo, blank text, an answer
AnswerInputs(n) ==
    { NoTextMsg, TextMsg(<<" ", "\n">>), TextMsg(<<" ", "a", "\n">>) }
    \cup (IF n <= VariedSteps THEN { TextMsg(<<"b">>) } ELSE {})

I_decline == <<" ", "ru_n", "ru_e", " ", "ru_h", "ru_o", "ru_ch", "ru_u", " ">>
I_skip == <<"S", "k", "i", "p">>
I_url == <<"h", "t", "t", "p", "s", ":", "/", "/", "x", ".", "i", "o">>
I_nda == <<"N", "D", "A">>
I_note == <<"n", "d", "a", ":", " ", "r", "a", "g">>
I_ok == <<"o", "k">>
I_domain == <<"g", "i", "t", "h", "u", "b", ".", "c", "o", "m">>
I_domain_nl == <<"a", ".", "c", "o", "m", "\n", "b", ".", "r", "u">>
I_domain_tab == <<"a", ".", "c", "o", "\t", "b", ".", "r", "u">>
I_domain_path == <<"s", "i", "t", "e", ".", "r", "u", "/", "x">>
I_pod_nda == <<"RU_P", "ru_o", "ru_d", " ", "n", "d", "a">>
I_spaced_nda == <<"ru_p", " ", "ru_o", " ", "ru_d", " ", "n", "d", "a">>
I_url_words == <<"h", "t", "t", "p", ":", "/", "/", "a", " ", "b">>
I_short_note == <<"n", "d", "a", " ", "x">>
I_spaced_skip == <<"s", " ", " ", "k", " ", " ", "i", " ", " ", "p">>

\* Messages sent at the link step
LinkInputs ==
    { NoTextMsg, TextMsg(<<" ", "\t">>) }
    \cup { TextMsg(s) : s \in { I_decline, I_skip, I_url, I_nda, I_note, I_ok, I_domain,
                                I_domain_nl, I_domain_tab, I_domain_path, I_pod_nda,
                                I_spaced_nda, I_url_words, I_short_note, I_spaced_skip } }

(***************************************************************************)
(* The bot: one update is handled at a time                                *)
(***************************************************************************)

\* The session of one user, the administrator or a candidate, from the start
\* of the process: the FSM storage is empty
Init ==
    \E u \in Users :
        /\ state = [x \in {u} |-> "None"]
        /\ data = [x \in {u} |-> ClearedData]
        /\ ev = [user |-> u, kind |-> "none", msg |-> NoTextMsg, at |-> "None"]
        /\ out = <<>>
        /\ ext = NoExt
        /\ ADMIN_MSG_IDS = EmptyDict
        /\ chat = NoPanel
        /\ tasks = {}
        /\ loop = NoCall

Start ==
    /\ \E u \in DOMAIN state : start_handler(u)
    /\ UNCHANGED <<panel_vars, loop_vars>>

Restart ==
    /\ \E u \in DOMAIN state : restart_handler(u)
    /\ UNCHANGED <<panel_vars, loop_vars>>

Cancel ==
    /\ \E u \in DOMAIN state : cancel_handler(u)
    /\ UNCHANGED <<panel_vars, loop_vars>>

GoStart ==
    /\ \E u \in DOMAIN state : \E editOk, delOk \in BOOLEAN : go_start_cb(u, editOk, delOk)
    /\ UNCHANGED <<panel_vars, loop_vars>>

Answer ==
    /\ \E u \in DOMAIN state : \E n \in 1..5, editOk, delOk \in BOOLEAN :
          \E m \in AnswerInputs(n) : qn_handler(u, n, m, editOk, delOk)
    /\ UNCHANGED <<panel_vars, loop_vars>>

Answer6 ==
    /\ \E u \in DOMAIN state : \E m \in AnswerInputs(6), delOk \in BOOLEAN :
          q6_handler(u, m, delOk)
    /\ UNCHANGED <<panel_vars, loop_vars>>

Link ==
    /\ \E u \in DOMAIN state : \E m \in LinkInputs : link_handler(u, m)
    /\ UNCHANGED <<panel_vars, loop_vars>>

Unhandled ==
    /\ \E u \in DOMAIN state : \E m \in AnswerInputs(1) \cup {TextMsg(I_url)} :
          unhandled_message(u, m)
    /\ UNCHANGED <<panel_vars, loop_vars>>

Next ==
    \/ Start
    \/ Restart
    \/ Cancel
    \/ GoStart
    \/ Answer
    \/ Answer6
    \/ Link
    \/ Unhandled

Spec == Init /\ [][Next]_vars

(***************************************************************************)
(* Handlers as tasks of one event loop                                     *)
(*                                                                         *)
(* dp.start_polling(bot) handles every update in a task of its own.  A     *)
(* handler runs until it awaits a Telegram call or asyncio.sleep; there    *)
(* another task may run.  score_candidate and append_row are plain         *)
(* functions called without await: from the call to its return no task     *)
(* runs.  The awaits of one _send_replace or _transition_accepted are      *)
(* taken as one suspension, and the command and button handlers as one     *)
(* step each.                                                              *)
(***************************************************************************)

\* Suspended handlers one user may have
MaxUserTasks == 1

\* The users who answer the questions; the others send commands, press the
\* confirmation button and send blank answers
ConcCandidates == Users \ {admin_user_id}

ConcAnswer == TextMsg(<<" ", "a", "\n">>)
ConcLinkInputs == {TextMsg(I_url), TextMsg(I_ok)}
ConcOracleResponses == {R_ok, R_garbage, R_raise}

NoCls == [accepted |-> FALSE, project_link |-> <<>>, project_note |-> None]
NoScore == [ok |-> FALSE, calls |-> <<>>, scores |-> <<>>, exc |-> <<>>]

\* A suspended handler of user u at position pc: the message m it handles,
\* the state at it was dispatched in, and its local variables (n is 0 for
\* link_handler)
Task(u, pc, n, m, at, last_id, prompt, kb, cls, answers, sc) ==
    [user |-> u, pc |-> pc, n |-> n, m |-> m, at |-> at, last_id |-> last_id,
     prompt |-> prompt, kb |-> kb, cls |-> cls, answers |-> answers, sc |-> sc]

TasksOf(u) == {t \in tasks : t.user = u}

\* Task t ran from its suspension to the next one (or to its end) and left
\* st, dt, o, x
Resumed(t, st, dt, o, x) ==
    /\ state' = [state EXCEPT ![t.user] = st]
    /\ data' = [data EXCEPT ![t.user] = dt]
    /\ ev' = [user |-> t.user, kind |-> "msg", msg |-> t.m, at |-> t.at]
    /\ out' = o
    /\ ext' = x

InitConc ==
    /\ state = [u \in Users |-> "None"]
    /\ data = [u \in Users |-> ClearedData]
    /\ ev = [user |-> admin_user_id, kind |-> "none", msg |-> NoTextMsg, at |-> "None"]
    /\ out = <<>>
    /\ ext = NoExt
    /\ ADMIN_MSG_IDS = EmptyDict
    /\ chat = NoPanel
    /\ tasks = {}
    /\ loop = NoCall

ConcStart == loop = NoCall /\ Start

ConcRestart == loop = NoCall /\ Restart

ConcCancel == loop = NoCall /\ Cancel

ConcGoStart ==
    /\ loop = NoCall
    /\ \E u \in DOMAIN state : go_start_cb(u, TRUE, TRUE)
    /\ UNCHANGED <<panel_vars, loop_vars>>

\* q1_handler .. q6_handler and link_handler on an input they answer with a
\* reprompt: no await before their only call
ConcReprompt ==
    /\ loop = NoCall
    /\ \E u \in DOMAIN state :
          \/ \E n \in 1..5 : qn_handler(u, n, NoTextMsg, TRUE, TRUE)
          \/ q6_handler(u, NoTextMsg, TRUE)
          \/ link_handler(u, TextMsg(I_ok))
    /\ UNCHANGED <<panel_vars, loop_vars>>

\* q1_handler .. q6_handler up to their first suspension: the answer is
\* stored; q1..q5 wait in _transition_accepted, q6 sets the state and waits
\* in _send_replace
ConcAnswerBegin ==
    /\ loop = NoCall
    /\ \E u \in ConcCandidates, n \in 1..6 :
          /\ state[u] = QKeys[n]
          /\ Cardinality(TasksOf(u)) < MaxUserTasks
          /\ LET m == ConcAnswer
                 d1 == record_answer(data[u], n, norm(m))
                 t == IF n < 6
                      THEN Task(u, "accepted", n, m, state[u], NoMsgId, QuestionId[n + 1],
                                "none", NoCls, NoAnswers, NoScore)
                      ELSE Task(u, "replace", n, m, state[u], d1.last_bot_msg_id, "Link",
                                "none", NoCls, NoAnswers, NoScore)
             IN  /\ Resumed(t, IF n < 6 THEN state[u] ELSE state_after_q(n), d1,
                            IF n < 6 THEN transition_accepted_calls(d1, TRUE) ELSE <<>>,
                            NoExt)
                 /\ tasks' = tasks \cup {t}
    /\ UNCHANGED <<panel_vars, loop>>

\* q1_handler .. q5_handler after _transition_accepted: set_state, then
\* _send_replace reads last_bot_msg_id and sleeps
ConcAccepted ==
    /\ loop = NoCall
    /\ \E t \in tasks :
          /\ t.pc = "accepted"
          /\ Resumed(t, state_after_q(t.n), data[t.user], <<>>, NoExt)
          /\ tasks' = (tasks \ {t})
                      \cup {[t EXCEPT !.pc = "replace",
                                      !.last_id = data[t.user].last_bot_msg_id]}
    /\ UNCHANGED <<panel_vars, loop>>

\* _send_replace after its sleep: delete, send, update_data(last_bot_msg_id);
\* link_handler then calls set_state(None)
ConcReplace ==
    /\ loop = NoCall
    /\ \E t \in tasks :
          /\ t.pc = "replace"
          /\ Resumed(t, IF t.n = 0 THEN "None" ELSE state[t.user],
                     send_replace_data(data[t.user], t.prompt),
                     send_replace_calls([data[t.user] EXCEPT !.last_bot_msg_id = t.last_id],
                                        t.prompt, t.kb, TRUE),
                     NoExt)
          /\ tasks' = tasks \ {t}
    /\ UNCHANGED <<panel_vars, loop>>

\* link_handler on an accepted input up to the scoring notice
ConcLinkBegin ==
    /\ loop = NoCall
    /\ \E u \in ConcCandidates, m \in ConcLinkInputs :
          /\ state[u] = "link"
          /\ Cardinality(TasksOf(u)) < MaxUserTasks
          /\ LET cls == classify_link(Strip(norm(m)))
                 t == Task(u, "score", 0, m, state[u], NoMsgId, "Done",
                           IF is_admin(u) THEN "admin_entry" ELSE "none",
                           cls, data[u].answers, NoScore)
             IN  /\ cls.accepted
                 /\ Resumed(t, state[u], data[u],
                            <<Api("typing", "", "none", TRUE), Send("Scoring")>>, NoExt)
                 /\ tasks' = tasks \cup {t}
    /\ UNCHANGED <<panel_vars, loop>>

\* link_handler calls score_candidate(payload)
ConcOracleCall ==
    /\ loop = NoCall
    /\ \E t \in tasks :
          /\ t.pc = "score"
          /\ tasks' = (tasks \ {t}) \cup {[t EXCEPT !.pc = "in_oracle"]}
          /\ loop' = [user |-> t.user, call |-> "oracle"]
    /\ UNCHANGED <<state, data, ev, out, ext, panel_vars>>

\* score_candidate returns or raises; after a result the scoring notice is
\* deleted (an await), after an exception append_row is called at once
ConcOracleReturn ==
    \E t \in tasks :
        /\ t.pc = "in_oracle" /\ loop = [user |-> t.user, call |-> "oracle"]
        /\ \E r1 \in ConcOracleResponses : \E r2 \in RetryResponses(r1) :
              LET sc == score_candidate(build_payload(t.user, t.answers, t.cls.project_link),
                                        r1, r2)
              IN  /\ Resumed(t, state[t.user], data[t.user],
                             IF sc.ok THEN <<Api("delete", "Scoring", "none", TRUE)>> ELSE <<>>,
                             [NoExt EXCEPT !.oracle = sc.calls])
                  /\ tasks' = (tasks \ {t})
                              \cup {[t EXCEPT !.sc = sc,
                                              !.pc = IF sc.ok THEN "append" ELSE "in_store"]}
                  /\ loop' = IF sc.ok THEN NoCall ELSE [user |-> t.user, call |-> "store"]
        /\ UNCHANGED panel_vars

\* link_handler calls append_row(row)
ConcStoreCall ==
    /\ loop = NoCall
    /\ \E t \in tasks :
          /\ t.pc = "append"
          /\ tasks' = (tasks \ {t}) \cup {[t EXCEPT !.pc = "in_store"]}
          /\ loop' = [user |-> t.user, call |-> "store"]
    /\ UNCHANGED <<state, data, ev, out, ext, panel_vars>>

\* append_row returns or raises; the alert is sent when needed; _send_replace
\* reads last_bot_msg_id and sleeps
ConcStoreReturn ==
    \E t \in tasks :
        /\ t.pc = "in_store" /\ loop = [user |-> t.user, call |-> "store"]
        /\ \E storeRes \in StoreOutcomes :
              LET row == build_row(t.user, t.answers, t.cls, t.sc)
                  res == append_row(row, storeRes)
                  sheet_error == sheet_error_of(res)
                  alerts == IF alert_needed(row.scoring_failed, sheet_error, row.top_candidate)
                            THEN <<[display |-> alert_display(t.user),
                                    is_top |-> row.top_candidate,
                                    scoring_failed |-> row.scoring_failed,
                                    sheet_error |-> sheet_error, ok |-> TRUE]>>
                            ELSE <<>>
              IN  /\ Resumed(t, state[t.user], data[t.user], <<>>,
                             [oracle |-> <<>>,
                              store |-> <<[row |-> row, ok |-> ~res.raises]>>,
                              alert |-> alerts,
                              fetch |-> <<>>])
                  /\ tasks' = (tasks \ {t})
                              \cup {[t EXCEPT !.pc = "replace",
                                              !.last_id = data[t.user].last_bot_msg_id]}
                  /\ loop' = NoCall
        /\ UNCHANGED panel_vars

NextConc ==
    \/ ConcStart
    \/ ConcRestart
    \/ ConcCancel
    \/ ConcGoStart
    \/ ConcReprompt
    \/ ConcAnswerBegin
    \/ ConcAccepted
    \/ ConcReplace
    \/ ConcLinkBegin
    \/ ConcOracleCall
    \/ ConcOracleReturn
    \/ ConcStoreCall
    \/ ConcStoreReturn

SpecConc == InitConc /\ [][NextConc]_vars

(***************************************************************************)
(* The admin panel on its own                                              *)
(***************************************************************************)

\* Messages the bot sends to the panel's chat in one run of the panel
MaxPanelMsgs == 7

\* The rest of the text of an /admin command
AdminArgs == { <<>>, <<" ", "T", "o", "p">>, <<"x">> }

\* Cells of the sheet: timestamps, overall scores, flags
Ts1 == <<"1", "Z">>
Ts2 == <<"2", "Z">>
CellTrue == <<"T", "R", "U", "E">>
CellFalse == <<"F", "A", "L", "S", "E">>

Row_top == SheetCells(Ts2, <<"a", "d", "m">>, <<"A", "n", "n">>, <<"1", "0">>, CellTrue, CellFalse)
Row_plain == SheetCells(Ts1, <<>>, <<"S", "a", "m">>, <<"8">>, CellFalse, CellFalse)
Row_late == SheetCells(Ts2, <<>>, <<"S", "a", "m">>, <<"8">>, CellFalse, CellFalse)
Row_failed == SheetCells(<<>>, <<>>, <<>>, <<"x">>, <<>>, CellTrue)
Row_yes == SheetCells(Ts1, <<>>, <<"S", "a", "m">>, <<" ", "6">>, <<" ", "Y", "e", "s">>, CellFalse)

\* The sheet while the panel is used
AdminSheet == <<Row_plain, Row_top>>

\* The administrator has completed a screening, so the chat shows the
\* completion message with the panel's entry button; a second member of the
\* chat has no session
InitAdmin ==
    LET m == TextMsg(I_nda)
        dt == [answers |-> [k \in {QKeys[i] : i \in 1..6} |-> <<"a">>],
               last_bot_msg_id |-> "Link"]
        r == link_accepted(admin_user_id, dt, classify_link(Strip(norm(m))),
                           R_ok, R_raise, [raises |-> FALSE, msg |-> <<>>],
                           TRUE, TRUE, TRUE)
    IN  /\ state = [u \in Users |-> IF u = admin_user_id THEN r.st ELSE "None"]
        /\ data = [u \in Users |-> IF u = admin_user_id THEN r.dt ELSE ClearedData]
        /\ ev = [user |-> admin_user_id, kind |-> "msg", msg |-> m, at |-> "link"]
        /\ out = r.out
        /\ ext = r.ext
        /\ ADMIN_MSG_IDS = EmptyDict
        /\ chat = NoPanel
        /\ tasks = {}
        /\ loop = NoCall

AdminCommand ==
    /\ chat.last_id < MaxPanelMsgs
    /\ \E u \in DOMAIN state : \E arg \in AdminArgs, fetchOk \in BOOLEAN :
          admin_handler(u, arg, fetchOk, AdminSheet)
    /\ UNCHANGED loop_vars

ChatIdCommand ==
    /\ chat.last_id < MaxPanelMsgs
    /\ \E u \in DOMAIN state : chatid_handler(u)
    /\ UNCHANGED loop_vars

AdminMenu ==
    /\ chat.last_id < MaxPanelMsgs
    /\ \E u \in DOMAIN state : admin_menu_cb(u)
    /\ UNCHANGED loop_vars

\* The buttons of admin_all_cb, admin_top_cb and admin_close_cb are those of
\* a menu message in the chat
AdminStats ==
    /\ chat.last_id < MaxPanelMsgs
    /\ chat.menus # {}
    /\ \E u \in DOMAIN state : \E only_top, fetchOk \in BOOLEAN :
          admin_stats_cb(u, only_top, fetchOk, AdminSheet)
    /\ UNCHANGED loop_vars

AdminClose ==
    /\ \E u \in DOMAIN state : \E mid \in chat.menus, delOk \in BOOLEAN :
          admin_close_cb(u, mid, delOk)
    /\ UNCHANGED loop_vars

NextAdmin ==
    \/ AdminCommand
    \/ ChatIdCommand
    \/ AdminMenu
    \/ AdminStats
    \/ AdminClose

SpecAdmin == InitAdmin /\ [][NextAdmin]_vars

(***************************************************************************)
(* The statistics report over the sheets fetch_rows can return             *)
(***************************************************************************)

\* Rows in the sheet, and reports asked for
MaxRows == 4
MaxReports == 2

RowPool == {Row_top, Row_plain, Row_late, Row_failed, Row_yes}
Sheets == UNION {[1..n -> RowPool] : n \in 0..MaxRows}

\* What fetch_rows can return to a handler of user u
FetchResults(u, fetchOk) == IF is_admin(u) /\ fetchOk THEN Sheets ELSE {<<>>}

\* One report is looked at in a run
StatsCommand ==
    /\ chat.last_id < MaxReports /\ ext.fetch = <<>>
    /\ \E u \in DOMAIN state : \E arg \in AdminArgs, fetchOk \in BOOLEAN :
          \E rows \in FetchResults(u, fetchOk) : admin_handler(u, arg, fetchOk, rows)
    /\ UNCHANGED loop_vars

StatsMenu ==
    /\ chat.last_id < MaxReports
    /\ \E u \in DOMAIN state : admin_menu_cb(u)
    /\ UNCHANGED loop_vars

StatsView ==
    /\ chat.last_id < MaxReports /\ ext.fetch = <<>>
    /\ chat.menus # {}
    /\ \E u \in DOMAIN state : \E only_top, fetchOk \in BOOLEAN :
          \E rows \in FetchResults(u, fetchOk) : admin_stats_cb(u, only_top, fetchOk, rows)
    /\ UNCHANGED loop_vars

NextStats ==
    \/ StatsCommand
    \/ StatsMenu
    \/ StatsView

SpecStats == InitAdmin /\ [][NextStats]_vars

(***************************************************************************)
(* The admin panel with admin_close_cb as a task                           *)
(*                                                                         *)
(* _thanos_delete awaits every delete_message; while it waits, the         *)
(* handlers of other updates run.  Its loop goes over the list it read     *)
(* when it began, and after the last delete it stores an empty list.       *)
(***************************************************************************)

\* Closes in progress at one time
MaxCloses == 1

\* admin_close_cb suspended in _thanos_delete: items is the list read at its
\* start, todo the part of reversed(items) not yet deleted (the delete of
\* its head is in flight), done the messages it has deleted
CloseTask(items, todo, done) ==
    [user |-> admin_user_id, pc |-> "thanos", items |-> items, todo |-> todo, done |-> done]

\* Panel messages sent while closes run as tasks
MaxTaskPanelMsgs == 4

PanelMenu == chat.last_id < MaxTaskPanelMsgs /\ AdminMenu

PanelStats == chat.last_id < MaxTaskPanelMsgs /\ AdminStats

\* admin_close_cb of the administrator up to the first delete_message
PanelCloseBegin ==
    /\ Cardinality(tasks) < MaxCloses
    /\ \E mid \in chat.menus :
          LET tracked == track_admin_msg(ADMIN_MSG_IDS, admin_user_id, ChatId, mid)
              items == tracked[admin_user_id]
          IN  /\ Handled(admin_user_id, "admin_close", NoTextMsg, state[admin_user_id],
                         data[admin_user_id], <<>>, NoExt)
              /\ ADMIN_MSG_IDS' = tracked
              /\ tasks' = tasks \cup {CloseTask(items, Reversed(items), {})}
    /\ UNCHANGED <<chat, loop>>

\* A delete_message of _thanos_delete returns or raises; the next one is
\* called, or the list is emptied and the callback answered
PanelDeleted ==
    \E t \in tasks : \E delOk \in BOOLEAN :
        LET id == Head(t.todo)[2]
            ok == delOk /\ id \notin t.done
            last == Len(t.todo) = 1
        IN  /\ state' = state /\ data' = data /\ ext' = NoExt
            /\ ev' = [user |-> t.user, kind |-> "admin_close", msg |-> NoTextMsg,
                      at |-> state[t.user]]
            /\ out' = <<Api("delete", id, "none", ok)>>
                      \o (IF last THEN <<Api("cb_answer", "Closed", "none", TRUE)>> ELSE <<>>)
            /\ ADMIN_MSG_IDS' = IF last THEN DictSet(ADMIN_MSG_IDS, t.user, <<>>)
                                ELSE ADMIN_MSG_IDS
            /\ chat' = [chat EXCEPT !.menus = IF ok THEN @ \ {id} ELSE @]
            /\ tasks' = (tasks \ {t})
                        \cup (IF last THEN {}
                              ELSE {CloseTask(t.items, Tail(t.todo),
                                              IF ok THEN t.done \cup {id} ELSE t.done)})
            /\ UNCHANGED loop

NextPanel ==
    \/ PanelMenu
    \/ PanelStats
    \/ PanelCloseBegin
    \/ PanelDeleted

SpecPanel == InitAdmin /\ [][NextPanel]_vars

(***************************************************************************)
(* Properties                                                              *)
(***************************************************************************)

\* Position of a state in the fixed order
StepIndex(st) == CHOOSE i \in 1..Len(StepOrder) : StepOrder[i] = st

\* The update handled last was a message of user u handled in state st
MsgHandledAt(u, st) == ev.user = u /\ ev.kind = "msg" /\ ev.at = st

\* C1: at every question step Qn a message with non-empty trimmed text moves
\* the step to the next one in the order (Q6 to the link step) and records the
\* trimmed text under key qn, under no other key, every earlier answer kept.
C1_AnswerAdvances ==
    [][\A u \in DOMAIN state : \A n \in 1..6 :
          (/\ state[u] = QKeys[n]
           /\ ev'.user = u /\ ev'.kind = "msg"
           /\ ev'.msg.isText /\ Strip(ev'.msg.text) # <<>>)
          => /\ state'[u] = StepOrder[StepIndex(QKeys[n]) + 1]
             /\ DOMAIN data'[u].answers = DOMAIN data[u].answers \cup {QKeys[n]}
             /\ data'[u].answers[QKeys[n]] = Strip(ev'.msg.text)
             /\ \A k \in DOMAIN data[u].answers \ {QKeys[n]} :
                    data'[u].answers[k] = data[u].answers[k]]_vars

\* C1 witness: the sixth answer was just recorded after a first answer "b"
C1_Witness ==
    \E u \in DOMAIN state :
        /\ MsgHandledAt(u, "q6") /\ state[u] = "link"
        /\ DOMAIN data[u].answers = {QKeys[i] : i \in 1..6}
        /\ data[u].answers["q1"] = <<"b">>
        /\ data[u].answers["q6"] = <<"a">>

\* C2: at every question step a message with blank or absent text leaves the
\* step, the answers and last_bot_msg_id as they were; the only call made is
\* the reprompt.
C2_BlankAnswerReprompts ==
    [][\A u \in DOMAIN state : \A n \in 1..6 :
          (/\ state[u] = QKeys[n]
           /\ ev'.user = u /\ ev'.kind = "msg"
           /\ (~ev'.msg.isText \/ Strip(ev'.msg.text) = <<>>))
          => /\ state'[u] = state[u]
             /\ data'[u] = data[u]
             /\ out' = <<Send(RepromptId[n])>>
             /\ ext' = NoExt]_vars

\* C2 witness: a blank text was reprompted at Q3 with two answers on record
C2_Witness ==
    \E u \in DOMAIN state :
        /\ MsgHandledAt(u, "q3") /\ state[u] = "q3"
        /\ ev.msg.isText /\ ev.msg.text # <<>>
        /\ out = <<Send(RepromptId[3])>>
        /\ DOMAIN data[u].answers = {"q1", "q2"}

\* C3 as stated: every change of a step is a move to the immediate successor
\* in the order or a reset to Idle.
C3_Original ==
    [][\A u \in DOMAIN state :
          state'[u] # state[u]
          => \/ StepIndex(state'[u]) = StepIndex(state[u]) + 1
             \/ state'[u] = "None"]_vars

\* C3 amended: every change of a step is a move to the immediate successor,
\* a reset to Idle, or a reset to AwaitingStart by a start or restart command
\* that clears the session data.
C3_StepOrder ==
    [][\A u \in DOMAIN state :
          state'[u] # state[u]
          => \/ StepIndex(state'[u]) = StepIndex(state[u]) + 1
             \/ state'[u] = "None"
             \/ /\ state'[u] = "rules"
                /\ ev'.user = u /\ ev'.kind \in {"start", "restart"}
                /\ data'[u] = ClearedData]_vars

\* C3 witness: a restart handled at Q4 put the session back to AwaitingStart
C3_Witness ==
    \E u \in DOMAIN state :
        /\ ev.user = u /\ ev.kind = "restart" /\ ev.at = "q4"
        /\ state[u] = "rules"

\* Keys of the question steps a session in state st has passed
PassedKeys(st) == {QKeys[i] : i \in 1..(StepIndex(st) - 3)}

\* C4 as stated: between updates answers holds keys of passed question steps
\* only; it is empty in Idle, AwaitingStart and Q1, also after a completion.
C4_AnswersOnlyPassed ==
    \A u \in DOMAIN state : DOMAIN data[u].answers \subseteq PassedKeys(state[u])

\* The update of user u handled last was a restart or cancel command
ResetHandled(u) == ev.user = u /\ ev.kind \in {"restart", "cancel"}

\* C5 as stated: a restart or a cancel handled in a state other than Idle
\* leaves Idle with empty answers, and no row is appended.
C5_Original ==
    [][\A u \in DOMAIN state :
          (state[u] # "None" /\ ResetHandled(u)')
          => /\ state'[u] = "None"
             /\ data'[u].answers = NoAnswers
             /\ ext'.store = <<>>]_vars

\* C5 amended: handled in a state other than Idle, a cancel leaves Idle and a
\* restart leaves AwaitingStart; both leave the session data cleared, and
\* neither calls the oracle, appends a row or alerts.
C5_ResetClears ==
    [][\A u \in DOMAIN state :
          (state[u] # "None" /\ ResetHandled(u)')
          => /\ state'[u] = (IF ev'.kind = "cancel" THEN "None" ELSE "rules")
             /\ data'[u] = ClearedData
             /\ ext' = NoExt]_vars

\* C5 witness: a cancel handled at the link step, six answers on record,
\* left Idle and no answers
C5_Witness ==
    \E u \in DOMAIN state :
        /\ ev.user = u /\ ev.kind = "cancel" /\ ev.at = "link"
        /\ state[u] = "None"
        /\ data[u].answers = NoAnswers

\* C6: Q1 is entered only by the confirmation button pressed in AwaitingStart;
\* a message in AwaitingStart changes neither the state nor the data; the
\* button pressed in any other state is answered and changes neither.
C6_OnlyConfirmationStarts ==
    [][\A u \in DOMAIN state :
          /\ (state[u] # "q1" /\ state'[u] = "q1")
             => (ev'.user = u /\ ev'.kind = "go" /\ state[u] = "rules")
          /\ (state[u] = "rules" /\ ev'.user = u /\ ev'.kind = "msg")
             => (state'[u] = "rules" /\ data'[u] = data[u])
          /\ (state[u] # "rules" /\ ev'.user = u /\ ev'.kind = "go")
             => /\ state'[u] = state[u]
                /\ data'[u] = data[u]
                /\ out' = <<Api("cb_answer", "Ok", "none", TRUE)>>]_vars

\* C6 witness: the button pressed at Q3, two answers on record, was answered
C6_Witness ==
    \E u \in DOMAIN state :
        /\ ev.user = u /\ ev.kind = "go" /\ ev.at = "q3"
        /\ state[u] = "q3"
        /\ DOMAIN data[u].answers = {"q1", "q2"}
        /\ out = <<Api("cb_answer", "Ok", "none", TRUE)>>

\* The four accepted forms of a link input, over the trimmed text t
LinkForm(t) ==
    \/ is_decline(t)
    \/ is_valid_http_url(t)
    \/ Lower(t) = N_nda
    \/ is_reasonable_nda_note(t)

\* Message m is a link input that is not accepted: no text, blank, or of no form
LinkRejected(m) == ~m.isText \/ Strip(m.text) = <<>> \/ ~LinkForm(Strip(m.text))

\* C7: at the link step an input that is not accepted leaves the state at
\* link and the data unchanged, and makes no oracle call, no append and no
\* alert.
C7_RejectedLinkStays ==
    [][\A u \in DOMAIN state :
          (/\ state[u] = "link"
           /\ ev'.user = u /\ ev'.kind = "msg"
           /\ LinkRejected(ev'.msg))
          => /\ state'[u] = "link"
             /\ data'[u] = data[u]
             /\ ext' = NoExt]_vars

\* C7 witness: "ok" was answered with the list of formats at the link step
C7_Witness ==
    \E u \in DOMAIN state :
        /\ MsgHandledAt(u, "link") /\ state[u] = "link"
        /\ ev.msg = TextMsg(I_ok)
        /\ out = <<Send("BadFormat")>>

\* C8 as stated: at the link step every input for which the bare-domain
\* predicate holds is rejected: the state stays link, nothing is scored or
\* appended.
C8_BareDomainRejected ==
    [][\A u \in DOMAIN state :
          (/\ state[u] = "link"
           /\ ev'.user = u /\ ev'.kind = "msg" /\ ev'.msg.isText
           /\ looks_like_domain_without_scheme(Strip(ev'.msg.text)))
          => /\ state'[u] = "link"
             /\ ext' = NoExt]_vars

\* C9 as stated: at the link step every input the NDA-marker classifier
\* accepts completes the session with project link "nda" and no note.
C9_NdaWordCompletes ==
    [][\A u \in DOMAIN state :
          (/\ state[u] = "link"
           /\ ev'.user = u /\ ev'.kind = "msg" /\ ev'.msg.isText
           /\ is_nda_word(Strip(ev'.msg.text)))
          => /\ state'[u] = "None"
             /\ Len(ext'.store) = 1
             /\ ext'.store[1].row.project_link = N_nda
             /\ ext'.store[1].row.project_note = None]_vars

\* The oracle returned a response that validates, at the first call or the retry
OracleSucceeded(calls) ==
    \E i \in 1..Len(calls) : ~calls[i].response.raises /\ model_validate(calls[i].response)

\* C10: at the link step, six answers on record, an accepted input makes
\* exactly one append attempt and leaves the state None; when the oracle
\* succeeded the row appended has scoring_failed false.
C10_OneAppendThenIdle ==
    [][\A u \in DOMAIN state :
          (/\ state[u] = "link"
           /\ DOMAIN data[u].answers = {QKeys[i] : i \in 1..6}
           /\ ev'.user = u /\ ev'.kind = "msg"
           /\ ~LinkRejected(ev'.msg))
          => /\ Len(ext'.store) = 1
             /\ state'[u] = "None"
             /\ ext'.store[1].row.answers_json = json_dumps(data[u].answers)
             /\ OracleSucceeded(ext'.oracle) => ~ext'.store[1].row.scoring_failed]_vars

\* C10 witness: a URL was accepted, the oracle succeeded at the retry and the
\* row was appended
C10_Witness ==
    \E u \in DOMAIN state :
        /\ MsgHandledAt(u, "link") /\ state[u] = "None"
        /\ ev.msg = TextMsg(I_url)
        /\ Len(ext.oracle) = 2 /\ OracleSucceeded(ext.oracle)
        /\ Len(ext.store) = 1 /\ ext.store[1].ok
        /\ ~ext.store[1].row.scoring_failed

\* The response of oracle call i was returned and parses and validates
ValidCall(calls, i) == ~calls[i].response.raises /\ model_validate(calls[i].response)

\* C11: one score_candidate makes at most two oracle calls: one when the
\* first response is valid or the first call raised, two when the first
\* response was returned and is invalid; it succeeds exactly when the first
\* response is valid, or the first is invalid and the second valid.
C11_AtMostOneRetry ==
    LET calls == ext.oracle
    IN  /\ Len(calls) <= 2
        /\ Len(calls) = 1 => (calls[1].response.raises \/ ValidCall(calls, 1))
        /\ Len(calls) = 2 => (~calls[1].response.raises /\ ~ValidCall(calls, 1))
        /\ Len(ext.store) = 1
           => /\ Len(calls) >= 1
              /\ ~ext.store[1].row.scoring_failed
                 <=> \/ ValidCall(calls, 1)
                     \/ (Len(calls) = 2 /\ ~ValidCall(calls, 1) /\ ValidCall(calls, 2))

\* C11 witness: the first response had two criteria, the retry raised, and
\* the row is marked scoring_failed
C11_Witness ==
    /\ Len(ext.oracle) = 2
    /\ ext.oracle[1].response = R_two
    /\ ext.oracle[2].response = R_raise
    /\ Len(ext.store) = 1 /\ ext.store[1].row.scoring_failed

\* A parsed response that is no ScoreResult: not three criteria, or a score
\* outside 0..10
IllFormed(r) ==
    /\ ~r.raises /\ r.parses
    /\ \/ Len(r.criteria) # 3
       \/ \E i \in 1..Len(r.criteria) : r.criteria[i] < 0 \/ r.criteria[i] > 10
       \/ r.overall < 0 \/ r.overall > 10

\* C12: a result score_candidate returned has exactly three criteria, each
\* score and the overall score in 0..10; an ill-formed first response is
\* followed by the retry, and two ill-formed responses end in a failure.
C12_ResultWellFormed ==
    LET calls == ext.oracle
    IN  /\ \A i \in 1..Len(ext.store) :
              LET row == ext.store[i].row
              IN  ~row.scoring_failed
                  => /\ Len(row.scores_json) = 1
                     /\ Len(row.scores_json[1].criteria) = 3
                     /\ \A k \in 1..3 : row.scores_json[1].criteria[k] \in 0..10
                     /\ row.scores_json[1].overall_score_0_10 \in 0..10
        /\ (Len(calls) >= 1 /\ IllFormed(calls[1].response)) => Len(calls) = 2
        /\ (Len(calls) = 2 /\ IllFormed(calls[1].response) /\ IllFormed(calls[2].response))
           => (Len(ext.store) = 1 /\ ext.store[1].row.scoring_failed)

\* C12 witness: a response with a score of 11 was retried and the retry's
\* well-formed result is in the row
C12_Witness ==
    /\ Len(ext.oracle) = 2
    /\ ext.oracle[1].response = R_eleven
    /\ ext.oracle[2].response = R_hot
    /\ Len(ext.store) = 1
    /\ ext.store[1].row.scores_json = <<ScoreResult(R_hot)>>

\* C13: a scoring failure is kept in the row: scoring_failed, overall score 0,
\* not a top candidate, no scores, an error text of at most 500 characters,
\* and the append is attempted; a row not marked scoring_failed carries the
\* overall score and the hot flag of the oracle's last response.
C13_FailureCaptured ==
    LET calls == ext.oracle
    IN  /\ (Len(calls) >= 1 /\ ~ValidCall(calls, Len(calls)))
           => (Len(ext.store) = 1 /\ ext.store[1].row.scoring_failed)
        /\ \A i \in 1..Len(ext.store) :
              LET row == ext.store[i].row
              IN  IF row.scoring_failed
                  THEN /\ row.overall_score = 0
                       /\ ~row.top_candidate
                       /\ row.scores_json = <<>>
                       /\ row.error # None
                       /\ Len(row.error[1]) <= 500
                  ELSE /\ row.overall_score = calls[Len(calls)].response.overall
                       /\ row.top_candidate = calls[Len(calls)].response.hot
                       /\ row.error = None

\* C13 witness: the oracle raised with a text of 501 characters; the row
\* keeps 500 of them and was appended
C13_Witness ==
    /\ Len(ext.oracle) = 1
    /\ Len(ext.oracle[1].response.msg) = 501
    /\ Len(ext.store) = 1 /\ ext.store[1].ok
    /\ ext.store[1].row.scoring_failed
    /\ Len(ext.store[1].row.error[1]) = 500

\* The update handled in this step is an accepted link input of user u
LinkAcceptedStep(u) ==
    /\ state[u] = "link"
    /\ ev'.user = u /\ ev'.kind = "msg"
    /\ ~LinkRejected(ev'.msg)

\* The last call of the handler sent the completion message
DoneSent(o) == Len(o) >= 1 /\ o[Len(o)].op = "send" /\ o[Len(o)].arg = "Done" /\ o[Len(o)].ok

\* C14: whatever the outcomes of scoring, of the append and of the alert, an
\* accepted link input ends with the completion message sent and the state
\* None.
C14_AlwaysCompletes ==
    [][\A u \in DOMAIN state :
          LinkAcceptedStep(u) => (DoneSent(out') /\ state'[u] = "None")]_vars

\* C14 witness: scoring failed, the append raised and the alert was not
\* delivered; the completion message was sent
C14_Witness ==
    \E u \in DOMAIN state :
        /\ MsgHandledAt(u, "link") /\ state[u] = "None"
        /\ Len(ext.store) = 1 /\ ~ext.store[1].ok
        /\ ext.store[1].row.scoring_failed
        /\ Len(ext.alert) = 1 /\ ~ext.alert[1].ok
        /\ DoneSent(out)

\* C15 as stated: for a completed session an alert is attempted exactly when
\* scoring failed, or the append raised, or the top-candidate flag is set.
C15_AlertIffAttention ==
    Len(ext.store) = 1
    => (Len(ext.alert) >= 1
        <=> \/ ext.store[1].row.scoring_failed
            \/ ~ext.store[1].ok
            \/ ext.store[1].row.top_candidate)

\* C16: at most one alert is attempted for an accepted link input, and when
\* its delivery fails the completion message is sent, the state is None, and
\* the calls, the row and the data are those of the same run with the alert
\* delivered.
C16_AlertFireAndForget ==
    [][\A u \in DOMAIN state :
          LinkAcceptedStep(u)
          => /\ Len(ext'.alert) <= 1
             /\ (Len(ext'.alert) = 1 /\ ~ext'.alert[1].ok)
                => /\ DoneSent(out') /\ state'[u] = "None"
                   /\ Len(ext'.store) = 1
                   /\ \E storeRes \in StoreOutcomes, delOk \in BOOLEAN :
                         /\ storeRes.raises = ~ext'.store[1].ok
                         /\ link_accepted(u, data[u], classify_link(Strip(ev'.msg.text)),
                                          ext'.oracle[1].response,
                                          ext'.oracle[Len(ext'.oracle)].response,
                                          storeRes, out'[2].ok, TRUE, delOk)
                            = [st |-> state'[u], dt |-> data'[u], out |-> out',
                               ext |-> [ext' EXCEPT !.alert[1].ok = TRUE]]]_vars

\* C16 witness: the alert for a top candidate was not delivered; the row was
\* appended and the completion message sent
C16_Witness ==
    \E u \in DOMAIN state :
        /\ MsgHandledAt(u, "link") /\ state[u] = "None"
        /\ Len(ext.alert) = 1 /\ ~ext.alert[1].ok /\ ext.alert[1].is_top
        /\ Len(ext.store) = 1 /\ ext.store[1].ok
        /\ DoneSent(out)

\* The prompt shown on entering state st: a question, the link prompt, or the
\* completion message on leaving the link step
PromptOf(st) ==
    IF st = "None" THEN "Done"
    ELSE IF st = "link" THEN "Link"
    ELSE QuestionId[StepIndex(st) - 2]

\* C19: on every step forward that shows a new prompt, the delete of the
\* prompt last_bot_msg_id names comes before the send of the new prompt, the
\* new prompt is sent whether or not the delete succeeded, and
\* last_bot_msg_id then names the new prompt.
C19_ReplaceInOrder ==
    [][\A u \in DOMAIN state :
          (/\ ev'.user = u /\ ev'.kind \in {"go", "msg"}
           /\ state'[u] # state[u])
          => LET old == data[u].last_bot_msg_id
                 new == PromptOf(state'[u])
                 sends == {j \in 1..Len(out') : out'[j].op = "send" /\ out'[j].arg = new}
                 deletes == {i \in 1..Len(out') : out'[i].op = "delete" /\ out'[i].arg = old}
             IN  /\ Cardinality(sends) = 1
                 /\ \A j \in sends : out'[j].ok
                 /\ old # NoMsgId
                    => (deletes # {} /\ \A i \in deletes, j \in sends : i < j)
                 /\ data'[u].last_bot_msg_id = new]_vars

\* C19 witness: the delete of question 2 failed and question 3 was sent after it
C19_Witness ==
    \E u \in DOMAIN state :
        /\ MsgHandledAt(u, "q2") /\ state[u] = "q3"
        /\ \E i \in 1..Len(out) :
              /\ out[i] = Api("delete", QuestionId[2], "none", FALSE)
              /\ i < Len(out)
              /\ out[Len(out)] = Send(QuestionId[3])
        /\ data[u].last_bot_msg_id = QuestionId[3]

\* The buffer _ADMIN_MSG_IDS keeps for the administrator
AdminBuf(ids) == DictGet(ids, admin_user_id)

\* This step is a panel callback of the administrator that tracks a message
TrackingStep ==
    /\ ev'.user = admin_user_id
    /\ ev'.kind \in {"admin_menu", "admin_all", "admin_top"}

\* C20: the administrator's buffer never holds more than 6 entries; a
\* message tracked when it holds 6 drops the oldest entry and keeps the order
\* of the others; after a close of the administrator the buffer is empty.
C20_BufferBounded ==
    [][/\ \A u \in DOMAIN ADMIN_MSG_IDS' : Len(ADMIN_MSG_IDS'[u]) <= 6
       /\ TrackingStep
          => LET buf == AdminBuf(ADMIN_MSG_IDS)
                 new == <<ChatId, chat'.last_id>>
             IN  AdminBuf(ADMIN_MSG_IDS')
                 = IF Len(buf) < 6 THEN Append(buf, new) ELSE Append(Tail(buf), new)
       /\ (ev'.user = admin_user_id /\ ev'.kind = "admin_close")
          => AdminBuf(ADMIN_MSG_IDS') = <<>>]_vars

\* C20 witness: a seventh message was tracked: the buffer holds messages 2..7
C20_Witness ==
    /\ ev.user = admin_user_id /\ ev.kind \in {"admin_menu", "admin_all", "admin_top"}
    /\ AdminBuf(ADMIN_MSG_IDS) = [i \in 1..6 |-> <<ChatId, i + 1>>]

\* C17 as stated: when a restart or a cancel of a user was handled while
\* another handler of that user was suspended, the step that resumes that
\* handler leaves the state the reset established and the answers empty.
C17_ResetNotUndone ==
    [][\A t \in tasks :
          (ResetHandled(t.user) /\ t \notin tasks')
          => /\ state'[t.user] = state[t.user]
             /\ data'[t.user].answers = NoAnswers]_vars

\* C18 as stated: while the link handler of one user is inside the oracle
\* call or the store call, an update of another user can be handled.
C18_CallsSuspend ==
    loop # NoCall
    => \E v \in DOMAIN state \ {loop.user} : ENABLED (NextConc /\ ev'.user = v)

\* The entries of a list
Entries(items) == {items[i] : i \in 1..Len(items)}

\* C21 as stated: when a close finishes, every entry of the buffer has had
\* its deletion attempted by that close or is still in the buffer.
C21_CloseLosesNothing ==
    [][\A t \in tasks :
          (t.pc = "thanos" /\ t \notin tasks' /\ Len(t.todo) = 1)
          => Entries(DictGet(ADMIN_MSG_IDS, t.user))
             \subseteq Entries(t.items) \cup Entries(DictGet(ADMIN_MSG_IDS', t.user))]_vars

\* The updates of the admin command and the panel's buttons
AdminKinds == {"admin", "admin_menu", "admin_all", "admin_top", "admin_close"}

\* C22: an admin command or panel button of a user who is not the
\* administrator is answered with the denial only: the sheet is not read,
\* the buffer of tracked messages does not change and no message is deleted.
C22_NonAdminDenied ==
    [][\A u \in DOMAIN state :
          (ev'.user = u /\ u # admin_user_id /\ ev'.kind \in AdminKinds)
          => /\ out' \in {<<Send("AdminOnly")>>,
                          <<Api("cb_answer", "AdminOnly", "none", TRUE)>>}
             /\ ext'.fetch = <<>>
             /\ ADMIN_MSG_IDS' = ADMIN_MSG_IDS
             /\ chat'.menus = chat.menus]_vars

C22_Witness ==
    /\ ev.user # admin_user_id
    /\ ev.kind = "admin_close"
    /\ Len(DictGet(ADMIN_MSG_IDS, admin_user_id)) > 1
    /\ chat.menus # {}

\* A report with numbers was made from the sheet read last
Reported == ext.fetch # <<>> /\ ext.fetch[1].report.kind \in {"report", "top_report"}

\* The positions of the rows of the sheet a report is about
Selected(f) ==
    {i \in 1..Len(f.rows) : ~f.only_top \/ to_bool(f.rows[i].top_candidate)}

RECURSIVE SumScores(_, _)
SumScores(rows, S) ==
    IF S = {} THEN 0
    ELSE LET i == CHOOSE x \in S : TRUE
         IN  to_int(rows[i].overall_score, 0) + SumScores(rows, S \ {i})

\* C23: with only_top the count, the average, the number of top candidates,
\* the number of scoring failures and the leaderboard are those of the rows
\* whose top flag parses as true, so the count equals the number of top
\* candidates; without it they are those of all rows.
C23_FilterBeforeAggregates ==
    Reported
    => LET f == ext.fetch[1]
           r == f.report
           S == Selected(f)
       IN  /\ r.total = Cardinality(S)
           /\ r.top_count = Cardinality({i \in S : to_bool(f.rows[i].top_candidate)})
           /\ r.failed_count = Cardinality({i \in S : to_bool(f.rows[i].scoring_failed)})
           /\ r.avg = RoundTenths(SumScores(f.rows, S), Cardinality(S))
           /\ \A k \in 1..Len(r.top3) :
                  \E i \in S : r.norm[r.top3[k]] = norm_row(f.rows[i])
           /\ f.only_top => r.total = r.top_count
           /\ ~f.only_top => r.total = Len(f.rows)

C23_Witness ==
    /\ Reported
    /\ ext.fetch[1].only_top
    /\ ext.fetch[1].report.total = 2
    /\ Len(ext.fetch[1].rows) = 4
    /\ \E i \in 1..4 : ext.fetch[1].rows[i] = Row_yes
    /\ \E i \in 1..4 : ext.fetch[1].rows[i] = Row_failed

\* C24 as stated: a report with only_top over a sheet without top rows, the
\* empty sheet included, is the "no top candidates" text; the "no data"
\* text is returned only without only_top for the empty sheet.
C24_NoTopIndicator ==
    \A k \in 1..Len(ext.fetch) :
        LET f == ext.fetch[k]
        IN  f.ok => /\ (f.only_top /\ Selected(f) = {}) => f.report.kind = "no_top"
                    /\ f.report.kind = "no_data" => (~f.only_top /\ f.rows = <<>>)

\* C25: the leaderboard is the first min(3, n) of the n rows of the report
\* in the order of overall score descending and, for equal scores, timestamp
\* descending; its rows are rows of the report and none is there twice.
C25_Leaderboard ==
    Reported
    => LET r == ext.fetch[1].report
           n == Len(r.norm)
           top == r.top3
       IN  /\ Len(top) = (IF n < 3 THEN n ELSE 3)
           /\ \A i \in 1..Len(top) : top[i] \in 1..n
           /\ \A i, j \in 1..Len(top) : i # j => top[i] # top[j]
           /\ \A i, j \in 1..Len(top) :
                  i < j => ~KeyLess(r.norm[top[i]], r.norm[top[j]])
           /\ \A p \in 1..n :
                  (\A i \in 1..Len(top) : top[i] # p)
                  => \A i \in 1..Len(top) : ~KeyLess(r.norm[top[i]], r.norm[p])

C25_Witness ==
    /\ Reported
    /\ Len(ext.fetch[1].report.norm) = 4
    /\ LET r == ext.fetch[1].report
       IN  /\ r.norm[r.top3[1]].overall = 10
           /\ r.norm[r.top3[2]].overall = 8 /\ r.norm[r.top3[2]].ts = Ts2
           /\ r.norm[r.top3[3]].overall = 8 /\ r.norm[r.top3[3]].ts = Ts1
           /\ r.top3[1] = 4

\* C26 as stated: the display name of an alert is the handle when the user
\* has one, otherwise the full name when it is not empty, otherwise the
\* placeholder.
C26_DisplayPreference ==
    \A k \in 1..Len(ext.alert) :
        LET username == Strip(Username(ev.user))
            full_name == Strip(FullName(ev.user))
        IN  IF username # <<>>
            THEN ext.alert[k].display \in {username, <<"@">> \o username}
            ELSE IF full_name # <<>>
            THEN ext.alert[k].display = full_name
            ELSE ext.alert[k].display = Placeholder

\* C27: at the link step the checks are decline, URL, NDA marker, note, and
\* the first that matches decides: a text that begins with http:// or
\* https:// is stored as the project link with no note, also when it is long
\* enough and has words enough for a note; a decline phrase is stored as
\* "declined", also when it would pass as a note; the marker is stored as
\* "nda" with no note; a note is stored as "nda" with the note.
C27_ClassificationOrder ==
    [][\A u \in DOMAIN state :
          (/\ state[u] = "link"
           /\ ev'.user = u /\ ev'.kind = "msg" /\ ev'.msg.isText)
          => LET t == Strip(ev'.msg.text)
                 decline == Lower(RemoveChar(t, " ")) \in DeclinePhrases
                 url == StartsWith(t, P_http) \/ StartsWith(t, P_https)
                 marker == Lower(t) = N_nda
                 stored(link, note) ==
                     /\ Len(ext'.store) = 1
                     /\ ext'.store[1].row.project_link = link
                     /\ ext'.store[1].row.project_note = note
             IN  /\ decline => stored(D_declined, None)
                 /\ url => stored(t, None)
                 /\ marker => stored(N_nda, None)
                 /\ (~decline /\ ~url /\ ~marker /\ is_reasonable_nda_note(t))
                    => stored(N_nda, Some(t))]_vars

C27_Witness ==
    \E u \in DOMAIN state :
        /\ MsgHandledAt(u, "link") /\ ev.msg = TextMsg(I_url_words)
        /\ is_reasonable_nda_note(I_url_words)
        /\ Len(ext.store) = 1
        /\ ext.store[1].row.project_link = I_url_words
        /\ ext.store[1].row.project_note = None

\* C28: a step of a handler of one user leaves the state, the answers and
\* last_bot_msg_id of every other user as they were, whatever handlers are
\* suspended.
C28_OtherSessionsUntouched ==
    [][\A u \in DOMAIN state :
          ev'.user # u => (state'[u] = state[u] /\ data'[u] = data[u])]_vars

\* C28 witness: a command of one user was handled while a handler of the
\* other was suspended after the fourth answer
C28_Witness ==
    \E t \in tasks :
        /\ t.pc = "replace" /\ t.n = 4
        /\ ev.user # t.user /\ ev.kind = "go"
        /\ state[ev.user] = "q1"
        /\ state[t.user] = "q5"
        /\ DOMAIN data[t.user].answers = {"q1", "q2", "q3", "q4"}

\* C29: in a session between q1 and the link step the answers on record are
\* those of the steps passed since the confirmation; the payload of every
\* oracle call and the row passed to append_row carry these six answers,
\* none of them empty.
C29_SixCurrentAnswers ==
    [][\A u \in DOMAIN state :
          /\ StepIndex(state[u]) >= 3
             => DOMAIN data[u].answers = PassedKeys(state[u])
          /\ LinkAcceptedStep(u)
             => /\ DOMAIN data[u].answers = {QKeys[i] : i \in 1..6}
                /\ \A k \in DOMAIN data[u].answers : data[u].answers[k] # <<>>
                /\ Len(ext'.oracle) >= 1
                /\ \A i \in 1..Len(ext'.oracle) :
                       ext'.oracle[i].payload.answers = data[u].answers
                /\ Len(ext'.store) = 1
                /\ ext'.store[1].row.answers_json = json_dumps(data[u].answers)]_vars

\* C29 witness: a link input was scored with a retry and appended, the first
\* answer being the second of the two texts
C29_Witness ==
    \E u \in DOMAIN state :
        /\ MsgHandledAt(u, "link") /\ state[u] = "None"
        /\ Len(ext.oracle) = 2 /\ Len(ext.store) = 1
        /\ ext.oracle[2].payload.answers["q1"] = <<"b">>
        /\ DOMAIN ext.oracle[2].payload.answers = {QKeys[i] : i \in 1..6}

====
